---- MODULE Spec2Model ----
(***************************************************************************)
(* Template catalog, bundle generator and deployment executor of ztp-mcp.  *)
(*                                                                         *)
(* The file system is modelled as two directory trees below the working    *)
(* directory: "internal/server/templates" (variable gen), which the        *)
(* generator and the executor use, and "templates" (variable cat), which   *)
(* the catalog reads.  Every system call of CreateTemplate and             *)
(* DeleteTemplate is one step of the calling process, so that calls can    *)
(* interleave; the sequential specification Spec runs one call at a time.  *)
(***************************************************************************)
EXTENDS Integers, Sequences, FiniteSets, TLC

\* ------------------------------------------------------------------ bounds
MaxCalls == 2
MaxCallsConc == 2
MaxMachines == 2

Procs == {1, 2}
SeqProcs == {1}

\* ------------------------------------------------------------------ state
\* gen and cat are the two directory trees, pc and loc the position and the
\* locals of every caller, last the last completed call, calls their number,
\* once the package variables once, defaultClient and initErr of the client
VARIABLES gen, cat, pc, loc, last, calls, once

vars == << gen, cat, pc, loc, last, calls, once >>

\* ------------------------------------------------------------------- names
DescriptionFile == "description.json"
PayloadFile == "template.yaml"
MetaDir == "template"
RootId == ""

\* every entry name of the model, in the byte order os.ReadDir sorts by
NameOrder ==
  << "a", "b", "description.json", "description.json.templ", "sub",
     "template", "template.yaml", "template.yaml.templ" >>

Names == { NameOrder[i] : i \in 1..Len(NameOrder) }

\* an output name that keeps the suffix
TrimSuffixKeep(name) == name

\* strings.TrimSuffix(name, ".templ") on the names of the model
TrimSuffix(name) ==
  CASE name = "description.json.templ" -> "description.json"
    [] name = "template.yaml.templ" -> "template.yaml"
    [] OTHER -> name

\* ------------------------------------------------------------- descriptors
CreateIds == {"a", "template", RootId}
DeleteIds == {"a", "b", "template", RootId}
TemplateNames == {"n1", "n2"}
ParamNames == {"Host"}

\* the ids the tool schema documents: ^[0-9a-z_-]+$
ValidId(id) == id \in {"a", "b", "template"}

GenericTemplate(id, name, params) ==
  [id |-> id, name |-> name, description |-> "d", params |-> params]

NoD == [id |-> "-", name |-> "-", description |-> "-", params |-> {}]

Descriptors ==
  { GenericTemplate(id, n, ps) : id \in CreateIds, n \in TemplateNames,
                                 ps \in {{}, ParamNames} }

\* ----------------------------------------------------------- file contents
NoData == [type |-> "none", what |-> "-", d |-> NoD, flag |-> "-"]

\* a meta-template source; flag is "ok", "badparse" or "badexec"
Templ(what, flag) == [type |-> "templ", what |-> what, d |-> NoD, flag |-> flag]

\* the output of a meta-template executed with descriptor d; flag is "part"
\* from os.Create until tmpl.Execute has written everything, then "full"
Out(what, d, flag) == [type |-> "out", what |-> what, d |-> d, flag |-> flag]

\* bytes that are neither JSON nor a template
Junk == [type |-> "junk", what |-> "-", d |-> NoD, flag |-> "-"]

\* ------------------------------------------------------------ file system
NoLeaf == [kind |-> "none", data |-> NoData]
FileLeaf(c) == [kind |-> "file", data |-> c]
DirLeaf == [kind |-> "dir", data |-> NoData]

EmptyMem == [n \in Names |-> NoLeaf]

NoNode == [kind |-> "none", data |-> NoData, mem |-> EmptyMem]
FileNode(c) == [kind |-> "file", data |-> c, mem |-> EmptyMem]
DirNode(m) == [kind |-> "dir", data |-> NoData, mem |-> m]

NoRoot == [exists |-> FALSE, ch |-> [n \in Names |-> NoNode]]

Mem1(n1, l1) == [n \in Names |-> IF n = n1 THEN l1 ELSE NoLeaf]

Mem2(n1, l1, n2, l2) ==
  [n \in Names |-> IF n = n1 THEN l1 ELSE IF n = n2 THEN l2 ELSE NoLeaf]

Mem3(n1, l1, n2, l2, n3, l3) ==
  [n \in Names |-> IF n = n3 THEN l3 ELSE Mem2(n1, l1, n2, l2)[n]]

\* filepath.Join(root, id): the empty id names the root directory itself
IsDir(fs, id) ==
  IF id = RootId THEN fs.exists ELSE fs.exists /\ fs.ch[id].kind = "dir"

PathExists(fs, id) ==
  IF id = RootId THEN fs.exists ELSE fs.exists /\ fs.ch[id].kind # "none"

\* the entry filepath.Join(root, id, m)
Member(fs, id, m) ==
  IF ~ IsDir(fs, id) THEN NoLeaf
  ELSE IF id = RootId THEN [kind |-> fs.ch[m].kind, data |-> fs.ch[m].data]
  ELSE fs.ch[id].mem[m]

WriteMember(fs, id, m, c) ==
  IF id = RootId THEN [fs EXCEPT !.ch[m] = FileNode(c)]
  ELSE [fs EXCEPT !.ch[id].mem[m] = FileLeaf(c)]

\* os.MkdirAll(filepath.Join(root, id), 0755)
MkdirAll(fs, id) ==
  IF id = RootId THEN [ok |-> TRUE, fs |-> [fs EXCEPT !.exists = TRUE]]
  ELSE IF fs.ch[id].kind = "file" THEN [ok |-> FALSE, fs |-> fs]
  ELSE IF fs.ch[id].kind = "dir" THEN [ok |-> TRUE, fs |-> fs]
  ELSE [ok |-> TRUE,
        fs |-> [exists |-> TRUE, ch |-> [fs.ch EXCEPT ![id] = DirNode(EmptyMem)]]]

\* os.RemoveAll(filepath.Join(root, id))
RemoveAll(fs, id) ==
  IF id = RootId THEN NoRoot ELSE [fs EXCEPT !.ch[id] = NoNode]

\* os.ReadDir(filepath.Join(root, id)): the entries sorted by name
ReadDir(fs, id) ==
  IF ~ IsDir(fs, id) THEN [ok |-> FALSE, entries |-> << >>]
  ELSE [ok |-> TRUE,
        entries |->
          LET present == SelectSeq(NameOrder,
                           LAMBDA n : Member(fs, id, n).kind # "none")
          IN [i \in 1..Len(present) |->
                [name |-> present[i],
                 isDir |-> Member(fs, id, present[i]).kind = "dir"]]]

\* -------------------------------------------------------- template engine
\* template.ParseFiles on a file with content c
ParseOk(c) ==
  CASE c.type = "templ" -> c.flag # "badparse"
    [] c.type = "out" -> TRUE
    [] OTHER -> FALSE

\* tmpl.Execute(outputFile, genericTemplate): a rendered payload used as a
\* meta-template refers to its placeholders, which are no fields of
\* GenericTemplate
ExecuteOk(c, d) ==
  CASE c.type = "templ" -> c.flag = "ok"
    [] c.type = "out" -> c.what = "desc" \/ c.d.params = {}
    [] OTHER -> FALSE

\* what a successful tmpl.Execute(outputFile, d) has written
Rendered(c, d) ==
  IF c.type = "templ" THEN Out(c.what, d, "full") ELSE c

\* the output file between os.Create and the end of tmpl.Execute
Partial(c, d) == [Rendered(c, d) EXCEPT !.flag = "part"]

\* ------------------------------------------------------------ the catalog
Description(id, name, description, params) ==
  [id |-> id, name |-> name, description |-> description, params |-> params]

ZeroDescription == Description("", "", "", {})

\* json.Unmarshal(fileData, &description)
UnmarshalOk(c) == c.type = "out" /\ c.what = "desc" /\ c.flag = "full"

Unmarshal(c) ==
  IF UnmarshalOk(c)
  THEN Description(c.d.id, c.d.name, c.d.description, c.d.params)
  ELSE ZeroDescription

\* os.IsNotExist(err) for os.Stat(filepath.Join(root, id, m)): a path below
\* a regular file fails with ENOTDIR, which is not a not-exist error
StatNotExist(fs, id, m) ==
  IF IsDir(fs, id) THEN Member(fs, id, m).kind = "none"
  ELSE ~ PathExists(fs, id)

\* os.ReadFile(filepath.Join(root, id, m)) succeeds
ReadFileOk(fs, id, m) == Member(fs, id, m).kind = "file"

\* TemplatesLoop without the skip of a directory that has no metadata member
RECURSIVE TemplatesLoopKeepMissing(_, _, _, _)
TemplatesLoopKeepMissing(fs, entries, i, acc) ==
  IF i > Len(entries) THEN acc
  ELSE LET e == entries[i] IN
    IF ~ e.isDir THEN TemplatesLoopKeepMissing(fs, entries, i + 1, acc)
    ELSE TemplatesLoopKeepMissing(fs, entries, i + 1,
           Append(acc, Unmarshal(Member(fs, e.name, DescriptionFile).data)))

\* the loop of Templates over entries[i..], appending to acc
RECURSIVE TemplatesLoop(_, _, _, _)
TemplatesLoop(fs, entries, i, acc) ==
  IF i > Len(entries) THEN acc
  ELSE LET e == entries[i] IN
    IF ~ e.isDir THEN TemplatesLoop(fs, entries, i + 1, acc)
    ELSE IF StatNotExist(fs, e.name, DescriptionFile)
      THEN TemplatesLoop(fs, entries, i + 1, acc)
    ELSE IF ~ ReadFileOk(fs, e.name, DescriptionFile)
      THEN TemplatesLoop(fs, entries, i + 1, acc)
    ELSE IF ~ UnmarshalOk(Member(fs, e.name, DescriptionFile).data)
      THEN TemplatesLoop(fs, entries, i + 1, acc)
    ELSE TemplatesLoop(fs, entries, i + 1,
           Append(acc, Unmarshal(Member(fs, e.name, DescriptionFile).data)))

\* Templates failing as a whole on a candidate whose metadata does not parse
TemplatesFailOnBad(fs) ==
  LET rd == ReadDir(fs, RootId) IN
  IF ~ rd.ok THEN [ok |-> FALSE, err |-> "readdir", val |-> << >>]
  ELSE IF \E n \in Names : /\ fs.ch[n].kind = "dir"
                           /\ fs.ch[n].mem[DescriptionFile].kind = "file"
                           /\ ~ UnmarshalOk(fs.ch[n].mem[DescriptionFile].data)
    THEN [ok |-> FALSE, err |-> "json", val |-> << >>]
  ELSE [ok |-> TRUE, err |-> "-", val |-> TemplatesLoop(fs, rd.entries, 1, << >>)]

Templates(fs) ==
  LET rd == ReadDir(fs, RootId) IN
  IF ~ rd.ok THEN [ok |-> FALSE, err |-> "readdir", val |-> << >>]
  ELSE [ok |-> TRUE, err |-> "-", val |-> TemplatesLoop(fs, rd.entries, 1, << >>)]

\* the loop of TemplateIDs over entries[i..], appending to acc
RECURSIVE TemplateIDsLoop(_, _, _, _)
TemplateIDsLoop(fs, entries, i, acc) ==
  IF i > Len(entries) THEN acc
  ELSE LET e == entries[i] IN
    IF ~ e.isDir THEN TemplateIDsLoop(fs, entries, i + 1, acc)
    ELSE IF StatNotExist(fs, e.name, DescriptionFile)
      THEN TemplateIDsLoop(fs, entries, i + 1, acc)
    ELSE IF ~ ReadFileOk(fs, e.name, DescriptionFile)
      THEN TemplateIDsLoop(fs, entries, i + 1, acc)
    ELSE IF ~ UnmarshalOk(Member(fs, e.name, DescriptionFile).data)
      THEN TemplateIDsLoop(fs, entries, i + 1, acc)
    ELSE TemplateIDsLoop(fs, entries, i + 1,
           Append(acc, Unmarshal(Member(fs, e.name, DescriptionFile).data).id))

TemplateIDs(fs) ==
  LET rd == ReadDir(fs, RootId) IN
  IF ~ rd.ok THEN [ok |-> FALSE, err |-> "readdir", val |-> << >>]
  ELSE [ok |-> TRUE, err |-> "-", val |-> TemplateIDsLoop(fs, rd.entries, 1, << >>)]

\* a Template that looks the id up in the summaries of Templates
TemplateFromListing(fs, id) ==
  LET hits == SelectSeq(Templates(fs).val, LAMBDA d : d.id = id)
  IN IF hits = << >>
     THEN [ok |-> FALSE, err |-> "notfound", val |-> ZeroDescription]
     ELSE [ok |-> TRUE, err |-> "-", val |-> hits[1]]

Template(fs, id) ==
  IF StatNotExist(fs, id, DescriptionFile)
    THEN [ok |-> FALSE, err |-> "notfound", val |-> ZeroDescription]
  ELSE IF ~ ReadFileOk(fs, id, DescriptionFile)
    THEN [ok |-> FALSE, err |-> "read", val |-> ZeroDescription]
  ELSE IF ~ UnmarshalOk(Member(fs, id, DescriptionFile).data)
    THEN [ok |-> FALSE, err |-> "json", val |-> ZeroDescription]
  ELSE [ok |-> TRUE, err |-> "-",
        val |-> Unmarshal(Member(fs, id, DescriptionFile).data)]

\* ----------------------------------------------------------- the executor
Payloads ==
  { "{}", "{\"Host\":\"10.0.0.5\"}", "{\"Host\":\"a+b\"}", "null", "[1]", "oops" }

\* the payloads that are JSON objects
JsonObjects == { "{}", "{\"Host\":\"10.0.0.5\"}", "{\"Host\":\"a+b\"}" }

\* json.Unmarshal([]byte(parameters), &params) into a map[string]any: an
\* object fills the map, null is accepted and leaves the map nil, any other
\* JSON value and any text that is not JSON is an error
ParamsOk(par) == par \in JsonObjects \cup { "null" }

Params(par) ==
  IF par = "{\"Host\":\"10.0.0.5\"}" THEN [n \in {"Host"} |-> "10.0.0.5"]
  ELSE IF par = "{\"Host\":\"a+b\"}" THEN [n \in {"Host"} |-> "a+b"]
  ELSE [n \in {} |-> ""]

\* html/template's escaping of a value in text context: the characters
\* " ' & < > + and NUL are replaced by character references
HTMLEscape(v) ==
  IF v = "<x>" THEN "&lt;x&gt;"
  ELSE IF v = "a+b" THEN "a&#43;b"
  ELSE v

\* ExecuteText that leaves the text "<no value>", which text/template prints
\* for a missing key, in the place of the placeholder
ExecuteTextNoValue(c, params) ==
  [src |-> c,
   binds |-> [n \in c.d.params |->
                IF n \in DOMAIN params THEN HTMLEscape(params[n])
                ELSE "&lt;no value&gt;"]]

\* what tmpl.Execute(&buf, t.Parameters) writes: the payload text with every
\* placeholder replaced, a missing key by the empty string
ExecuteText(c, params) ==
  [src |-> c,
   binds |-> [n \in c.d.params |->
                IF n \in DOMAIN params THEN HTMLEscape(params[n]) ELSE ""]]

NoText == [src |-> NoData, binds |-> [n \in {} |-> ""]]

\* base64.StdEncoding.EncodeToString
Base64(text) == [b64 |-> text]

NoUserData == [b64 |-> NoText]

\* the text a base64 string of Execute decodes to
Base64Decode(udata) == udata.b64

\* RetrieveExecutor that parses the parameters before it probes the bundle
RetrieveExecutorParseFirst(fs, id, par) ==
  IF ~ ParamsOk(par) THEN [ok |-> FALSE, err |-> "json"]
  ELSE IF ~ PathExists(fs, id) THEN [ok |-> FALSE, err |-> "notfound"]
  ELSE IF StatNotExist(fs, id, DescriptionFile)
    THEN [ok |-> FALSE, err |-> "notfound"]
  ELSE IF StatNotExist(fs, id, PayloadFile)
    THEN [ok |-> FALSE, err |-> "notfound"]
  ELSE [ok |-> TRUE, err |-> "-"]

\* RetrieveExecutor that drops the error of json.Unmarshal
RetrieveExecutorIgnoreJson(fs, id, par) ==
  IF ~ PathExists(fs, id) THEN [ok |-> FALSE, err |-> "notfound"]
  ELSE IF StatNotExist(fs, id, DescriptionFile)
    THEN [ok |-> FALSE, err |-> "notfound"]
  ELSE IF StatNotExist(fs, id, PayloadFile)
    THEN [ok |-> FALSE, err |-> "notfound"]
  ELSE [ok |-> TRUE, err |-> "-"]

\* RetrieveExecutor: the probes of the bundle directory and of its two
\* members, then json.Unmarshal of the parameters
RetrieveExecutor(fs, id, par) ==
  IF ~ PathExists(fs, id) THEN [ok |-> FALSE, err |-> "notfound"]
  ELSE IF StatNotExist(fs, id, DescriptionFile)
    THEN [ok |-> FALSE, err |-> "notfound"]
  ELSE IF StatNotExist(fs, id, PayloadFile)
    THEN [ok |-> FALSE, err |-> "notfound"]
  ELSE IF ~ ParamsOk(par) THEN [ok |-> FALSE, err |-> "json"]
  ELSE [ok |-> TRUE, err |-> "-"]

\* Execute on a template object that is kept between calls: html/template
\* refuses to parse into a template that has been executed
ExecuteShared(fs, id, params) ==
  LET m == Member(fs, id, PayloadFile) IN
  IF StatNotExist(fs, id, PayloadFile)
    THEN [ok |-> FALSE, err |-> "notfound", val |-> NoUserData]
  ELSE IF m.kind # "file" \/ ~ ParseOk(m.data) \/ (last.op = "render" /\ last.ok)
    THEN [ok |-> FALSE, err |-> "parse", val |-> NoUserData]
  ELSE IF m.data.type = "templ" /\ m.data.flag # "ok"
    THEN [ok |-> FALSE, err |-> "execute", val |-> NoUserData]
  ELSE [ok |-> TRUE, err |-> "-", val |-> Base64(ExecuteText(m.data, params))]

\* TemplateExecutor.Execute: a fresh template is parsed from the payload
\* member on every call
Execute(fs, id, params) ==
  LET m == Member(fs, id, PayloadFile) IN
  IF StatNotExist(fs, id, PayloadFile)
    THEN [ok |-> FALSE, err |-> "notfound", val |-> NoUserData]
  ELSE IF m.kind # "file" \/ ~ ParseOk(m.data)
    THEN [ok |-> FALSE, err |-> "parse", val |-> NoUserData]
  ELSE IF m.data.type = "templ" /\ m.data.flag # "ok"
    THEN [ok |-> FALSE, err |-> "execute", val |-> NoUserData]
  ELSE [ok |-> TRUE, err |-> "-", val |-> Base64(ExecuteText(m.data, params))]

\* ------------------------------------------------ the retrieve_templates tool
\* json.Marshal of a slice: a nil slice is marshalled as null, any other one
\* as the array of its elements
NoJson == [type |-> "-", descs |-> << >>, ids |-> << >>]

JsonNull == [type |-> "null", descs |-> << >>, ids |-> << >>]

MarshalDescriptions(descs) ==
  IF descs = << >> THEN JsonNull
  ELSE [type |-> "descriptions", descs |-> descs, ids |-> << >>]

MarshalIDs(ids) ==
  IF ids = << >> THEN JsonNull
  ELSE [type |-> "ids", descs |-> << >>, ids |-> ids]

\* RetrieveTemplates.Handle: the text of the tool result, or the tool error
Handle(fs, onlyIDs) ==
  IF onlyIDs
  THEN LET r == Templates(fs)
       IN [ok |-> r.ok, err |-> r.err,
           text |-> IF r.ok THEN MarshalDescriptions(r.val) ELSE NoJson]
  ELSE LET r == TemplateIDs(fs)
       IN [ok |-> r.ok, err |-> r.err,
           text |-> IF r.ok THEN MarshalIDs(r.val) ELSE NoJson]

\* ------------------------------------------------------- the machine tools
\* the value of tag_names in a machine of the control plane: the key is
\* absent, or it holds an array of tags
TagLists ==
  { << >>, << "web" >>, << "protected" >>, << "web", "protected" >>,
    << "Protected" >> }

MachineKinds ==
  { [hasTags |-> FALSE, tags |-> << >>] } \cup
  { [hasTags |-> TRUE, tags |-> t] : t \in TagLists }

\* the responses of GET /MAAS/api/2.0/machines/
Responses ==
  UNION { [1..n -> MachineKinds] : n \in 0..MaxMachines }

\* a CheckForProtectedTag that looks at the first tag only
CheckForProtectedTagFirst(data, i) ==
  IF ~ data.hasTags \/ i > Len(data.tags) THEN FALSE
  ELSE data.tags[i] = "protected"

\* parser.CheckForProtectedTag: the loop over data["tag_names"] from index i
RECURSIVE CheckForProtectedTag(_, _)
CheckForProtectedTag(data, i) ==
  IF ~ data.hasTags \/ i > Len(data.tags) THEN FALSE
  ELSE IF data.tags[i] = "protected" THEN TRUE
  ELSE CheckForProtectedTag(data, i + 1)

NoMachines == [type |-> "-", machines |-> << >>]

\* ListMachines.Handle: the loop that filters the machines and json.Marshal
\* of the result, null for a slice that stayed nil
FilterMachines(machines) ==
  LET kept == SelectSeq(machines, LAMBDA m : ~ CheckForProtectedTag(m, 1))
  IN IF kept = << >> THEN [type |-> "null", machines |-> << >>]
     ELSE [type |-> "list", machines |-> kept]

\* ListMachine.Handle: the response of a machine that is not protected, and
\* the empty text otherwise
FilterMachine(machine) ==
  IF ~ CheckForProtectedTag(machine, 1)
  THEN [type |-> "machine", machines |-> << machine >>]
  ELSE [type |-> "empty", machines |-> << >>]

\* ----------------------------------------------------------- state of calls
\* the last completed call: its operation, id and outcome, the parameters and
\* the result of a render, the bundles root from before a create
NoCall ==
  [op |-> "-", id |-> "-", ok |-> FALSE, par |-> "-", udata |-> NoUserData,
   before |-> NoRoot]

\* the locals of a call: its arguments, the snapshot of the bundles root and
\* the last completed call when it started (pre, prev), the loop state of
\* CreateTemplate (files, i, tmpl, orphan), the steps of executeTemplateFile
\* it has taken so far (log) and its result
\* no pair returned by GetClient yet
NoPair == [client |-> "-", err |-> "-"]

IdleLoc ==
  [op |-> "-", d |-> NoD, id |-> "-", par |-> "-", pre |-> NoRoot,
   prev |-> NoCall, files |-> << >>, i |-> 0, tmpl |-> NoData,
   orphan |-> FALSE, log |-> << >>, ok |-> FALSE, err |-> "-",
   descs |-> << >>, ids |-> << >>, desc |-> ZeroDescription,
   udata |-> NoUserData, onlyIDs |-> FALSE, text |-> NoJson,
   sent |-> NoUserData, posted |-> "-", resp |-> << >>, mres |-> NoMachines,
   got |-> NoPair]

\* one step of executeTemplateFile on the meta-template src: "parse",
\* "create" or "execute", the output name, the descriptor and the outcome
LogEntry(src, step, out, d, ok) ==
  [src |-> src, step |-> step, out |-> out, d |-> d, ok |-> ok]

Begin(op, id, d, par) ==
  [IdleLoc EXCEPT !.op = op, !.id = id, !.d = d, !.par = par, !.pre = gen,
                  !.prev = last]

CanCall(p) == pc[p] \in {"idle", "done"}

Completed(l) ==
  [op |-> l.op, id |-> l.id, ok |-> l.ok, par |-> l.par, udata |-> l.udata,
   before |-> IF l.op = "create" THEN l.pre ELSE NoRoot]

\* the first index >= i of a non-directory entry, Len(files) + 1 if none
RECURSIVE NextFile(_, _)
NextFile(files, i) ==
  IF i > Len(files) THEN i
  ELSE IF files[i].isDir THEN NextFile(files, i + 1)
  ELSE i

\* a removal of the unit id unlinks the files other calls hold open below it
Unlink(p, id) ==
  [q \in Procs |->
     IF q # p /\ pc[q] = "c_exec" /\ (id = RootId \/ loc[q].id = id)
     THEN [loc[q] EXCEPT !.orphan = TRUE]
     ELSE loc[q]]

\* ------------------------------------------------------------ initial state
MetaConfigs ==
  { << "ok", "ok" >>, << "ok", "badparse" >>, << "ok", "badexec" >>,
    << "badparse", "ok" >>, << "badexec", "ok" >> }

MetaNode(m) ==
  DirNode(Mem3("description.json.templ", FileLeaf(Templ("desc", m[1])),
               "template.yaml.templ", FileLeaf(Templ("payload", m[2])),
               "sub", DirLeaf))

Bundle(d) ==
  DirNode(Mem2(DescriptionFile, FileLeaf(Out("desc", d, "full")),
               PayloadFile, FileLeaf(Out("payload", d, "full"))))

OldA == GenericTemplate("a", "n2", {})
OldB == GenericTemplate("b", "n1", ParamNames)

\* the unit "a" of the bundles root: absent, an old bundle, or a directory
\* in which the name of the payload member is taken by a sub-directory
GenUnitA == { NoNode, Bundle(OldA), DirNode(Mem1(PayloadFile, DirLeaf)) }

\* the unit "a" next to which the executor is explored: also a directory
\* that holds the metadata member only
ExecUnitA ==
  GenUnitA \cup
    { DirNode(Mem1(DescriptionFile, FileLeaf(Out("desc", OldA, "full")))) }

GenRoot(m, a) ==
  [exists |-> TRUE,
   ch |-> [n \in Names |->
             IF n = MetaDir THEN MetaNode(m)
             ELSE IF n = "a" THEN a
             ELSE IF n = "b" THEN Bundle(OldB)
             ELSE NoNode]]

\* the unit "a" of the catalog's root: absent, a bundle, a stray empty
\* directory, a directory with unparsable metadata, a bundle whose metadata
\* names another id
CatUnitA ==
  { NoNode, Bundle(OldA), DirNode(EmptyMem),
    DirNode(Mem2(DescriptionFile, FileLeaf(Junk), PayloadFile,
                 FileLeaf(Out("payload", OldA, "full")))),
    Bundle(OldB) }

\* the unit "b" of the catalog's root: a bundle, or a directory whose
\* metadata member is a directory
CatUnitB == { Bundle(OldB), DirNode(Mem1(DescriptionFile, DirLeaf)) }

CatRoot(a, b) ==
  [exists |-> TRUE,
   ch |-> [n \in Names |->
             IF n = "a" THEN a
             ELSE IF n = "b" THEN b
             ELSE IF n = "sub" THEN FileNode(Junk)
             ELSE NoNode]]

CatRoots == { CatRoot(a, b) : a \in CatUnitA, b \in CatUnitB } \cup { NoRoot }

\* catalog roots next to which the generator is explored: one that holds the
\* two bundles, one with a stray directory "a", and a missing one
CatRootsGen ==
  { CatRoot(Bundle(OldA), Bundle(OldB)), CatRoot(DirNode(EmptyMem), Bundle(OldB)),
    NoRoot }

\* the environment of the process: MAAS_BASE_URL and MAAS_API_KEY are set
\* and well-formed, or one of them is not
Envs == {"set", "unset"}

\* NewMAASClientFromEnv
NewMAASClientFromEnv(env) ==
  IF env = "set" THEN [client |-> "client", err |-> "-"]
  ELSE [client |-> "nil", err |-> "env"]

\* the package variables before the first GetClient; built counts the calls
\* of NewMAASClientFromEnv
OnceNew(env) ==
  [env |-> env, state |-> "new", client |-> "nil", err |-> "-", built |-> 0]

NoCalls ==
  /\ pc = [p \in Procs |-> "idle"]
  /\ loc = [p \in Procs |-> IdleLoc]
  /\ last = NoCall
  /\ calls = 0

Quiet ==
  /\ NoCalls
  /\ once = OnceNew("set")

\* the bundles root holds the meta-template set and the units, or it does not
\* exist below the working directory
Init ==
  /\ gen \in { GenRoot(m, a) : m \in MetaConfigs, a \in GenUnitA } \cup { NoRoot }
  /\ cat \in CatRootsGen
  /\ Quiet

\* every catalog root next to one bundles root
InitCat ==
  /\ gen = GenRoot(<< "ok", "ok" >>, NoNode)
  /\ cat \in CatRoots
  /\ Quiet

\* every unit "a" of the bundles root next to one catalog root
InitExec ==
  /\ gen \in { GenRoot(<< "ok", "ok" >>, a) : a \in ExecUnitA }
  /\ cat = CatRoot(Bundle(OldA), Bundle(OldB))
  /\ Quiet

\* ----------------------------------------------------------- CreateTemplate
\* the call and os.MkdirAll(outputDir); an error here returns before the
\* deferred cleanup is registered
CreateTemplate(p, d) ==
  /\ CanCall(p)
  /\ calls' = calls + 1
  /\ LET r == MkdirAll(gen, d.id)
         l == Begin("create", d.id, d, "-")
     IN /\ gen' = r.fs
        /\ IF r.ok
           THEN /\ pc' = [pc EXCEPT ![p] = "c_readdir"]
                /\ loc' = [loc EXCEPT ![p] = l]
                /\ last' = last
           ELSE /\ pc' = [pc EXCEPT ![p] = "done"]
                /\ loc' = [loc EXCEPT ![p] = [l EXCEPT !.err = "mkdir"]]
                /\ last' = Completed(l)
  /\ UNCHANGED cat
  /\ UNCHANGED once

\* os.ReadDir(templateDir) and the entry into the loop
CreateReadDir(p) ==
  /\ pc[p] = "c_readdir"
  /\ LET rd == ReadDir(gen, MetaDir)
         first == NextFile(rd.entries, 1)
     IN IF ~ rd.ok
        THEN /\ pc' = [pc EXCEPT ![p] = "c_cleanup"]
             /\ loc' = [loc EXCEPT ![p].err = "readdir"]
             /\ last' = last
        ELSE IF first > Len(rd.entries)
        THEN /\ pc' = [pc EXCEPT ![p] = "done"]
             /\ loc' = [loc EXCEPT ![p].files = rd.entries, ![p].i = first,
                                   ![p].ok = TRUE]
             /\ last' = Completed([loc[p] EXCEPT !.ok = TRUE])
        ELSE /\ pc' = [pc EXCEPT ![p] = "c_parse"]
             /\ loc' = [loc EXCEPT ![p].files = rd.entries, ![p].i = first]
             /\ last' = last
  /\ UNCHANGED << gen, cat, calls >>
  /\ UNCHANGED once

\* CreateParse that skips a meta-template that does not parse and goes on
\* with the next one
CreateParseSkip(p) ==
  /\ pc[p] = "c_parse"
  /\ LET m == Member(gen, MetaDir, loc[p].files[loc[p].i].name)
         src == loc[p].files[loc[p].i].name
         nxt == NextFile(loc[p].files, loc[p].i + 1)
         e(ok) == LogEntry(src, "parse", "-", loc[p].d, ok)
     IN IF m.kind # "file" \/ ~ ParseOk(m.data)
        THEN /\ pc' = [pc EXCEPT ![p] = IF nxt > Len(loc[p].files)
                                        THEN "c_cleanup" ELSE "c_parse"]
             /\ loc' = [loc EXCEPT ![p].err = "parse", ![p].i = nxt,
                                   ![p].log = Append(@, e(FALSE))]
        ELSE /\ pc' = [pc EXCEPT ![p] = "c_open"]
             /\ loc' = [loc EXCEPT ![p].tmpl = m.data,
                                   ![p].log = Append(@, e(TRUE))]
  /\ UNCHANGED << gen, cat, last, calls >>
  /\ UNCHANGED once

\* executeTemplateFile: template.New(...).ParseFiles(templatePath)
CreateParse(p) ==
  /\ pc[p] = "c_parse"
  /\ LET m == Member(gen, MetaDir, loc[p].files[loc[p].i].name)
         src == loc[p].files[loc[p].i].name
         e(ok) == LogEntry(src, "parse", "-", loc[p].d, ok)
     IN IF m.kind # "file" \/ ~ ParseOk(m.data)
        THEN /\ pc' = [pc EXCEPT ![p] = "c_cleanup"]
             /\ loc' = [loc EXCEPT ![p].err = "parse",
                                   ![p].log = Append(@, e(FALSE))]
        ELSE /\ pc' = [pc EXCEPT ![p] = "c_open"]
             /\ loc' = [loc EXCEPT ![p].tmpl = m.data,
                                   ![p].log = Append(@, e(TRUE))]
  /\ UNCHANGED << gen, cat, last, calls >>
  /\ UNCHANGED once

\* CreateOpen that waits for a lock on the unit, which a caller holds while
\* it has a member open or removes the unit
CreateOpenLocked(p) ==
  /\ pc[p] = "c_open"
  /\ \A q \in Procs \ {p} :
       ~ (pc[q] \in {"c_exec", "d_remove"} /\ loc[q].id = loc[p].id)
  /\ LET src == loc[p].files[loc[p].i].name
         out == TrimSuffix(src)
         e(ok) == LogEntry(src, "create", out, loc[p].d, ok)
     IN IF ~ IsDir(gen, loc[p].id) \/ Member(gen, loc[p].id, out).kind = "dir"
        THEN /\ pc' = [pc EXCEPT ![p] = "c_cleanup"]
             /\ loc' = [loc EXCEPT ![p].err = "create",
                                   ![p].log = Append(@, e(FALSE))]
             /\ gen' = gen
        ELSE /\ pc' = [pc EXCEPT ![p] = "c_exec"]
             /\ loc' = [loc EXCEPT ![p].orphan = FALSE,
                                   ![p].log = Append(@, e(TRUE))]
             /\ gen' = WriteMember(gen, loc[p].id, out,
                                   Partial(loc[p].tmpl, loc[p].d))
  /\ UNCHANGED << cat, last, calls >>
  /\ UNCHANGED once

\* executeTemplateFile: os.Create(outputPath) creates or truncates the file
CreateOpen(p) ==
  /\ pc[p] = "c_open"
  /\ LET src == loc[p].files[loc[p].i].name
         out == TrimSuffix(src)
         e(ok) == LogEntry(src, "create", out, loc[p].d, ok)
     IN IF ~ IsDir(gen, loc[p].id) \/ Member(gen, loc[p].id, out).kind = "dir"
        THEN /\ pc' = [pc EXCEPT ![p] = "c_cleanup"]
             /\ loc' = [loc EXCEPT ![p].err = "create",
                                   ![p].log = Append(@, e(FALSE))]
             /\ gen' = gen
        ELSE /\ pc' = [pc EXCEPT ![p] = "c_exec"]
             /\ loc' = [loc EXCEPT ![p].orphan = FALSE,
                                   ![p].log = Append(@, e(TRUE))]
             /\ gen' = WriteMember(gen, loc[p].id, out,
                                   Partial(loc[p].tmpl, loc[p].d))
  /\ UNCHANGED << cat, last, calls >>
  /\ UNCHANGED once

\* executeTemplateFile: tmpl.Execute(outputFile, templ), outputFile.Close()
\* and the next iteration of the loop of CreateTemplate
CreateExecute(p) ==
  /\ pc[p] = "c_exec"
  /\ LET src == loc[p].files[loc[p].i].name
         out == TrimSuffix(src)
         nxt == NextFile(loc[p].files, loc[p].i + 1)
         e(ok) == LogEntry(src, "execute", out, loc[p].d, ok)
     IN IF ~ ExecuteOk(loc[p].tmpl, loc[p].d)
        THEN /\ pc' = [pc EXCEPT ![p] = "c_cleanup"]
             /\ loc' = [loc EXCEPT ![p].err = "execute",
                                   ![p].log = Append(@, e(FALSE))]
             /\ gen' = gen
             /\ last' = last
        ELSE /\ gen' = IF loc[p].orphan THEN gen
                       ELSE WriteMember(gen, loc[p].id, out,
                                        Rendered(loc[p].tmpl, loc[p].d))
             /\ IF nxt > Len(loc[p].files)
                THEN /\ pc' = [pc EXCEPT ![p] = "done"]
                     /\ loc' = [loc EXCEPT ![p].i = nxt, ![p].ok = TRUE,
                                           ![p].log = Append(@, e(TRUE))]
                     /\ last' = Completed([loc[p] EXCEPT !.ok = TRUE])
                ELSE /\ pc' = [pc EXCEPT ![p] = "c_parse"]
                     /\ loc' = [loc EXCEPT ![p].i = nxt,
                                           ![p].log = Append(@, e(TRUE))]
                     /\ last' = last
  /\ UNCHANGED << cat, calls >>
  /\ UNCHANGED once

\* the deferred function: os.RemoveAll(outputDir) when returnErr is set
CreateCleanup(p) ==
  /\ pc[p] = "c_cleanup"
  /\ gen' = RemoveAll(gen, loc[p].id)
  /\ pc' = [pc EXCEPT ![p] = "done"]
  /\ loc' = Unlink(p, loc[p].id)
  /\ last' = Completed(loc[p])
  /\ UNCHANGED << cat, calls >>
  /\ UNCHANGED once

\* ----------------------------------------------------------- DeleteTemplate
\* DeleteTemplate without the probe of the directory before the removal
DeleteTemplateNoProbe(p, id) ==
  /\ CanCall(p)
  /\ calls' = calls + 1
  /\ pc' = [pc EXCEPT ![p] = "d_remove"]
  /\ loc' = [loc EXCEPT ![p] = Begin("delete", id, NoD, "-")]
  /\ UNCHANGED << gen, cat, last >>
  /\ UNCHANGED once

\* the call and os.ReadDir(templateDir)
DeleteTemplate(p, id) ==
  /\ CanCall(p)
  /\ calls' = calls + 1
  /\ LET l == Begin("delete", id, NoD, "-")
     IN IF ~ ReadDir(gen, id).ok
        THEN /\ pc' = [pc EXCEPT ![p] = "done"]
             /\ loc' = [loc EXCEPT ![p] =
                  [l EXCEPT !.err = IF PathExists(gen, id) THEN "notdir"
                                    ELSE "notfound"]]
             /\ last' = Completed(l)
        ELSE /\ pc' = [pc EXCEPT ![p] = "d_remove"]
             /\ loc' = [loc EXCEPT ![p] = l]
             /\ last' = last
  /\ UNCHANGED << gen, cat >>
  /\ UNCHANGED once

\* os.RemoveAll(templateDir); the function returns nil
DeleteRemove(p) ==
  /\ pc[p] = "d_remove"
  /\ gen' = RemoveAll(gen, loc[p].id)
  /\ pc' = [pc EXCEPT ![p] = "done"]
  /\ loc' = [Unlink(p, loc[p].id) EXCEPT ![p].ok = TRUE]
  /\ last' = Completed([loc[p] EXCEPT !.ok = TRUE])
  /\ UNCHANGED << cat, calls >>
  /\ UNCHANGED once

\* what os.RemoveAll(filepath.Join(root, id)) leaves when it returns an
\* error: everything (the unit cannot be written) or the emptied directory
\* (its parent cannot be written)
RemoveAllFailed(fs, id) ==
  { fs,
    IF id = RootId THEN [exists |-> TRUE, ch |-> [n \in Names |-> NoNode]]
    ELSE [fs EXCEPT !.ch[id] = DirNode(EmptyMem)] }

\* os.RemoveAll(templateDir) returns an error: it is logged and the function
\* returns nil
DeleteRemoveFails(p) ==
  /\ pc[p] = "d_remove"
  /\ gen' \in RemoveAllFailed(gen, loc[p].id)
  /\ pc' = [pc EXCEPT ![p] = "done"]
  /\ loc' = [loc EXCEPT ![p].ok = TRUE,
                         ![p].log = Append(@, LogEntry("-", "removeall", "-",
                                                       NoD, FALSE))]
  /\ last' = Completed([loc[p] EXCEPT !.ok = TRUE])
  /\ UNCHANGED << cat, calls >>
  /\ UNCHANGED once

\* -------------------------------------------------------------- the catalog
GetIds == {"a", "b", "sub"}

ListTemplates(p) ==
  /\ CanCall(p)
  /\ calls' = calls + 1
  /\ LET r == Templates(cat)
         l == [Begin("list", "-", NoD, "-") EXCEPT
                 !.ok = r.ok, !.err = r.err, !.descs = r.val]
     IN /\ loc' = [loc EXCEPT ![p] = l]
        /\ last' = Completed(l)
  /\ pc' = [pc EXCEPT ![p] = "done"]
  /\ UNCHANGED << gen, cat >>
  /\ UNCHANGED once

ListTemplateIDs(p) ==
  /\ CanCall(p)
  /\ calls' = calls + 1
  /\ LET r == TemplateIDs(cat)
         l == [Begin("listIds", "-", NoD, "-") EXCEPT
                 !.ok = r.ok, !.err = r.err, !.ids = r.val]
     IN /\ loc' = [loc EXCEPT ![p] = l]
        /\ last' = Completed(l)
  /\ pc' = [pc EXCEPT ![p] = "done"]
  /\ UNCHANGED << gen, cat >>
  /\ UNCHANGED once

GetTemplate(p, id) ==
  /\ CanCall(p)
  /\ calls' = calls + 1
  /\ LET r == Template(cat, id)
         l == [Begin("get", id, NoD, "-") EXCEPT
                 !.ok = r.ok, !.err = r.err, !.desc = r.val]
     IN /\ loc' = [loc EXCEPT ![p] = l]
        /\ last' = Completed(l)
  /\ pc' = [pc EXCEPT ![p] = "done"]
  /\ UNCHANGED << gen, cat >>
  /\ UNCHANGED once

\* the retrieve_templates tool with the argument only_ids
RetrieveTemplates(p, onlyIDs) ==
  /\ CanCall(p)
  /\ calls' = calls + 1
  /\ LET r == Handle(cat, onlyIDs)
         l == [Begin("retrieve", "-", NoD, "-") EXCEPT
                 !.onlyIDs = onlyIDs, !.ok = r.ok, !.err = r.err,
                 !.text = r.text]
     IN /\ loc' = [loc EXCEPT ![p] = l]
        /\ last' = Completed(l)
  /\ pc' = [pc EXCEPT ![p] = "done"]
  /\ UNCHANGED << gen, cat >>
  /\ UNCHANGED once

\* ------------------------------------------------------------- the executor
RenderIds == {"a", "b"}

\* Retrieve that probes the bundle directory with os.MkdirAll
RetrieveMkdir(p, id, par) ==
  /\ CanCall(p)
  /\ calls' = calls + 1
  /\ LET r == RetrieveExecutor(gen, id, par)
         l == [Begin("render", id, NoD, par) EXCEPT !.err = r.err]
     IN /\ loc' = [loc EXCEPT ![p] = l]
        /\ IF r.ok
           THEN /\ pc' = [pc EXCEPT ![p] = "r_exec"]
                /\ last' = last
           ELSE /\ pc' = [pc EXCEPT ![p] = "done"]
                /\ last' = Completed(l)
  /\ gen' = MkdirAll(gen, id).fs
  /\ UNCHANGED cat
  /\ UNCHANGED once

\* the call of RetrieveExecutor by the deploy handler
Retrieve(p, id, par) ==
  /\ CanCall(p)
  /\ calls' = calls + 1
  /\ LET r == RetrieveExecutor(gen, id, par)
         l == [Begin("render", id, NoD, par) EXCEPT !.err = r.err]
     IN /\ loc' = [loc EXCEPT ![p] = l]
        /\ IF r.ok
           THEN /\ pc' = [pc EXCEPT ![p] = "r_exec"]
                /\ last' = last
           ELSE /\ pc' = [pc EXCEPT ![p] = "done"]
                /\ last' = Completed(l)
  /\ UNCHANGED << gen, cat >>
  /\ UNCHANGED once

\* Render that goes on to the client whatever Execute has returned
RenderIgnoreError(p) ==
  /\ pc[p] = "r_exec"
  /\ LET r == Execute(gen, loc[p].id, Params(loc[p].par))
         l == [loc[p] EXCEPT !.ok = r.ok, !.err = r.err, !.udata = r.val]
     IN loc' = [loc EXCEPT ![p] = l]
  /\ pc' = [pc EXCEPT ![p] = "r_client"]
  /\ UNCHANGED << gen, cat, last, calls, once >>

\* the call of templateExecutor.Execute by the deploy handler; an error
\* returns the error result, a success goes on to the client
Render(p) ==
  /\ pc[p] = "r_exec"
  /\ LET r == Execute(gen, loc[p].id, Params(loc[p].par))
         l == [loc[p] EXCEPT !.ok = r.ok, !.err = r.err, !.udata = r.val]
     IN /\ loc' = [loc EXCEPT ![p] = l]
        /\ IF r.ok
           THEN /\ pc' = [pc EXCEPT ![p] = "r_client"]
                /\ last' = last
           ELSE /\ pc' = [pc EXCEPT ![p] = "done"]
                /\ last' = Completed(l)
  /\ UNCHANGED << gen, cat, calls >>
  /\ UNCHANGED once

\* a GetClient whose initialisation is not guarded by once: a caller that
\* finds it unfinished runs it too
MustClientNoOnce(p) ==
  /\ pc[p] = "r_client"
  /\ IF once.state \in {"new", "running"}
     THEN /\ once' = [once EXCEPT !.state = "running"]
          /\ pc' = [pc EXCEPT ![p] = "r_init"]
          /\ UNCHANGED << loc, last >>
     ELSE IF once.err # "-"
     THEN /\ pc' = [pc EXCEPT ![p] = "done"]
          /\ loc' = [loc EXCEPT ![p].err = "panic",
                                 ![p].got = [client |-> once.client,
                                             err |-> once.err]]
          /\ last' = Completed(loc[p])
          /\ once' = once
     ELSE /\ pc' = [pc EXCEPT ![p] = IF loc[p].op = "render" THEN "r_post"
                                     ELSE "m_get"]
          /\ loc' = [loc EXCEPT ![p].got = [client |-> once.client,
                                            err |-> once.err]]
          /\ UNCHANGED << last, once >>
  /\ UNCHANGED << gen, cat, calls >>

\* maas_client.MustClient, GetClient: once.Do runs the initialisation for the
\* first caller and blocks every other caller until it has returned; then
\* defaultClient and initErr are read, and an error panics
MustClient(p) ==
  /\ pc[p] = "r_client"
  /\ once.state # "running"
  /\ IF once.state = "new"
     THEN /\ once' = [once EXCEPT !.state = "running"]
          /\ pc' = [pc EXCEPT ![p] = "r_init"]
          /\ UNCHANGED << loc, last >>
     ELSE IF once.err # "-"
     THEN /\ pc' = [pc EXCEPT ![p] = "done"]
          /\ loc' = [loc EXCEPT ![p].err = "panic",
                                 ![p].got = [client |-> once.client,
                                             err |-> once.err]]
          /\ last' = Completed(loc[p])
          /\ once' = once
     ELSE /\ pc' = [pc EXCEPT ![p] = IF loc[p].op = "render" THEN "r_post"
                                     ELSE "m_get"]
          /\ loc' = [loc EXCEPT ![p].got = [client |-> once.client,
                                            err |-> once.err]]
          /\ UNCHANGED << last, once >>
  /\ UNCHANGED << gen, cat, calls >>

\* the function passed to once.Do: defaultClient, initErr =
\* NewMAASClientFromEnv()
OnceInit(p) ==
  /\ pc[p] = "r_init"
  /\ LET r == NewMAASClientFromEnv(once.env)
     IN once' = [once EXCEPT !.state = "done", !.client = r.client,
                             !.err = r.err, !.built = @ + 1]
  /\ pc' = [pc EXCEPT ![p] = "r_client"]
  /\ UNCHANGED << gen, cat, loc, last, calls >>

\* form.Add("user_data", userData) and client.Post, which the control plane
\* answers or fails
Post(p) ==
  /\ pc[p] = "r_post"
  /\ \E res \in {"ok", "failed"} :
       LET l == [loc[p] EXCEPT !.sent = loc[p].udata, !.posted = res]
       IN /\ loc' = [loc EXCEPT ![p] = l]
          /\ last' = Completed(l)
  /\ pc' = [pc EXCEPT ![p] = "done"]
  /\ UNCHANGED << gen, cat, calls, once >>

\* ------------------------------------------------------- the machine tools
\* the call of list_machines or of list_machine, up to MustClient
MachinesCall(p, op) ==
  /\ CanCall(p)
  /\ calls' = calls + 1
  /\ pc' = [pc EXCEPT ![p] = "r_client"]
  /\ loc' = [loc EXCEPT ![p] = Begin(op, "-", NoD, "-")]
  /\ UNCHANGED << gen, cat, last, once >>

\* client.Get, which the control plane answers with machines or fails, and
\* the rest of the handler
MachinesGet(p) ==
  /\ pc[p] = "m_get"
  /\ \/ LET l == [loc[p] EXCEPT !.err = "get"]
        IN /\ loc' = [loc EXCEPT ![p] = l]
           /\ last' = Completed(l)
     \/ \E r \in Responses :
          /\ loc[p].op = "list_machine" => Len(r) = 1
          /\ LET l == [loc[p] EXCEPT
                         !.ok = TRUE, !.resp = r,
                         !.mres = IF loc[p].op = "list_machine"
                                  THEN FilterMachine(r[1])
                                  ELSE FilterMachines(r)]
             IN /\ loc' = [loc EXCEPT ![p] = l]
                /\ last' = Completed(l)
  /\ pc' = [pc EXCEPT ![p] = "done"]
  /\ UNCHANGED << gen, cat, calls, once >>

\* ----------------------------------------------------------- specifications
Call(p, ds, dels, gets, renders, pars) ==
  \/ \E d \in ds : CreateTemplate(p, d)
  \/ \E id \in dels : DeleteTemplate(p, id)
  \/ ListTemplates(p)
  \/ ListTemplateIDs(p)
  \/ \E id \in gets : GetTemplate(p, id)
  \/ \E onlyIDs \in BOOLEAN : RetrieveTemplates(p, onlyIDs)
  \/ \E id \in renders, par \in pars : Retrieve(p, id, par)

Step(p) ==
  \/ CreateReadDir(p)
  \/ CreateParse(p)
  \/ CreateOpen(p)
  \/ CreateExecute(p)
  \/ CreateCleanup(p)
  \/ DeleteRemove(p)
  \/ Render(p)
  \/ MustClient(p)
  \/ OnceInit(p)
  \/ Post(p)

\* one caller: every call runs to its return before the next one starts
Next ==
  \E p \in SeqProcs :
    \/ /\ calls < MaxCalls
       /\ Call(p, Descriptors, DeleteIds, GetIds, RenderIds, {"{}"})
    \/ Step(p)

Spec == Init /\ [][Next]_vars

SpecCat == InitCat /\ [][Next]_vars

\* one caller that renders with every payload of parameters; the bundles it
\* creates and deletes are "a" and "b"
ExecDescriptors == { d \in Descriptors : d.id = "a" }

NextExec ==
  \E p \in SeqProcs :
    \/ /\ calls < MaxCalls
       /\ Call(p, ExecDescriptors, {"a", "b"}, {"a"}, RenderIds, Payloads)
    \/ Step(p)

SpecExec == InitExec /\ [][NextExec]_vars

\* two callers whose calls interleave at every system call; all calls are
\* about the unit "a"
ConcDescriptors == { d \in Descriptors : d.id = "a" /\ d.params = {} }

InitConc ==
  /\ gen \in { GenRoot(m, NoNode) : m \in { << "ok", "ok" >>, << "ok", "badexec" >> } }
  /\ cat = CatRoot(NoNode, Bundle(OldB))
  /\ Quiet

NextConc ==
  \E p \in Procs :
    \/ /\ calls < MaxCallsConc
       /\ Call(p, ConcDescriptors, {"a"}, {"a"}, {"a"}, {"{}"})
    \/ Step(p)

SpecConc == InitConc /\ [][NextConc]_vars

\* two callers next to a bundle "a" that both roots hold
InitReads ==
  /\ gen = GenRoot(<< "ok", "ok" >>, Bundle(OldA))
  /\ cat = CatRoot(Bundle(OldA), Bundle(OldB))
  /\ Quiet

SpecReads == InitReads /\ [][NextConc]_vars

\* two callers of deploy_machine next to a bundle "a" that the other calls
\* replace and remove, in a process whose environment is set or not
InitDeploy ==
  /\ gen = GenRoot(<< "ok", "ok" >>, Bundle(OldA))
  /\ cat = CatRoot(Bundle(OldA), Bundle(OldB))
  /\ NoCalls
  /\ once \in { OnceNew(e) : e \in Envs }

NextDeploy ==
  \E p \in Procs :
    \/ /\ calls < MaxCallsConc
       /\ Call(p, ConcDescriptors, {"a"}, {"a"}, {"a", "b"}, {"{}", "oops"})
    \/ Step(p)

SpecDeploy == InitDeploy /\ [][NextDeploy]_vars

\* one caller next to a bundles root on which os.RemoveAll may fail
NextFault ==
  \E p \in SeqProcs :
    \/ /\ calls < MaxCalls
       /\ Call(p, ConcDescriptors, {"a", "b"}, {"a"}, {"a"}, {"{}"})
    \/ Step(p)
    \/ DeleteRemoveFails(p)

SpecFault == InitConc /\ [][NextFault]_vars

\* one caller of the machine read tools
InitMachines ==
  /\ gen = GenRoot(<< "ok", "ok" >>, NoNode)
  /\ cat = CatRoot(NoNode, Bundle(OldB))
  /\ NoCalls
  /\ once \in { OnceNew(e) : e \in Envs }

NextMachines ==
  \E p \in SeqProcs :
    \/ /\ calls < MaxCalls
       /\ \E op \in {"list_machines", "list_machine"} : MachinesCall(p, op)
    \/ MustClient(p)
    \/ OnceInit(p)
    \/ MachinesGet(p)

SpecMachines == InitMachines /\ [][NextMachines]_vars

\* what the deploy handler gets from RetrieveExecutor and Execute when no
\* other call runs in between
RenderAlone(fs, id, par) ==
  LET r == RetrieveExecutor(fs, id, par)
  IN IF ~ r.ok THEN [ok |-> FALSE, err |-> r.err, val |-> NoUserData]
     ELSE Execute(fs, id, Params(par))

\* ------------------------------------------------------------------ claims
Returned(p, op) == pc[p] = "done" /\ loc[p].op = op

\* both members of the unit id are present and completely written
Complete(fs, id) ==
  /\ Member(fs, id, DescriptionFile).kind = "file"
  /\ Member(fs, id, DescriptionFile).data.flag = "full"
  /\ Member(fs, id, PayloadFile).kind = "file"
  /\ Member(fs, id, PayloadFile).data.flag = "full"

\* C1: when a sequential create(D) returns, the unit D.id holds a complete
\* bundle or does not exist, and after an error it does not exist
C1_AllOrNothing ==
  \A p \in Procs :
    Returned(p, "create") =>
      /\ Complete(gen, loc[p].id) \/ ~ PathExists(gen, loc[p].id)
      /\ ~ loc[p].ok => ~ PathExists(gen, loc[p].id)

\* C2: whenever create(D) returns success, the unit D.id holds both members
C2_SuccessIsComplete ==
  \A p \in Procs :
    Returned(p, "create") /\ loc[p].ok => Complete(gen, loc[p].id)

\* C3: right after a successful create(D) that wrote the bundle, the
\* catalog's get(D.id) succeeds and returns the id, name and description of D
C3_RoundTrip ==
  \A p \in Procs :
    Returned(p, "create") /\ loc[p].ok /\ Complete(gen, loc[p].id) =>
      LET r == Template(cat, loc[p].id) IN
        /\ r.ok
        /\ r.val.id = loc[p].d.id
        /\ r.val.name = loc[p].d.name
        /\ r.val.description = loc[p].d.description

\* a create of the unit id is running and has not written both members
HalfWritten(id) ==
  \E p \in Procs :
    /\ loc[p].op = "create"
    /\ loc[p].id = id
    /\ pc[p] \in {"c_readdir", "c_parse", "c_open", "c_exec", "c_cleanup"}
    /\ ~ Complete(gen, id)

\* C4: a read that returns while a create of D.id is half-way does not show
\* D.id: list and listIds do not contain it, get and render do not succeed
C4_NeverObservable ==
  [][ \A q \in Procs, id \in CreateIds :
        ( /\ HalfWritten(id)
          /\ pc[q] # "done"
          /\ pc'[q] = "done" )
        => /\ loc'[q].op = "list" =>
                \A i \in 1..Len(loc'[q].descs) : loc'[q].descs[i].id # id
           /\ loc'[q].op = "listIds" =>
                \A i \in 1..Len(loc'[q].ids) : loc'[q].ids[i] # id
           /\ loc'[q].op = "get" /\ loc'[q].id = id => ~ loc'[q].ok
           /\ loc'[q].op = "render" /\ loc'[q].id = id => ~ loc'[q].ok ]_vars

\* C5: delete(id) of a unit that does not exist fails with a not-found error
\* and leaves the bundles root as it was
C5_DeleteMissing ==
  \A p \in Procs :
    Returned(p, "delete") /\ ~ PathExists(loc[p].pre, loc[p].id) =>
      /\ ~ loc[p].ok
      /\ loc[p].err = "notfound"
      /\ gen = loc[p].pre

C5_Witness ==
  \E p \in Procs :
    /\ Returned(p, "delete")
    /\ ~ PathExists(loc[p].pre, loc[p].id)
    /\ loc[p].pre.exists
    /\ loc[p].err = "notfound"

\* C6: a delete(D.id) that follows a successful create(D) succeeds and
\* removes the unit, after which get(D.id) fails with not-found and list and
\* listIds do not include D.id
C6_DeleteAfterCreate ==
  \A p \in Procs :
    ( /\ Returned(p, "delete")
      /\ loc[p].prev.op = "create" /\ loc[p].prev.id = loc[p].id
      /\ loc[p].prev.ok )
    => /\ loc[p].ok
       /\ ~ PathExists(gen, loc[p].id)
       /\ ~ Template(cat, loc[p].id).ok
       /\ Template(cat, loc[p].id).err = "notfound"
       /\ \A i \in 1..Len(TemplateIDs(cat).val) :
            TemplateIDs(cat).val[i] # loc[p].id
       /\ \A i \in 1..Len(Templates(cat).val) :
            Templates(cat).val[i].id # loc[p].id

\* the directories of the root fs whose metadata member is a file
WithMetadata(fs) ==
  { n \in Names : /\ fs.ch[n].kind = "dir"
                  /\ fs.ch[n].mem[DescriptionFile].kind = "file" }

\* C7: list and listIds return no entry for a unit whose metadata member is
\* missing: every entry is the metadata of a directory that has the member,
\* and there are no more entries than such directories
C7_NoEntryWithoutMetadata ==
  \A p \in Procs :
    /\ Returned(p, "list") =>
         /\ Len(loc[p].descs) <= Cardinality(WithMetadata(cat))
         /\ \A i \in 1..Len(loc[p].descs) :
              \E n \in WithMetadata(cat) :
                loc[p].descs[i] = Unmarshal(cat.ch[n].mem[DescriptionFile].data)
    /\ Returned(p, "listIds") =>
         /\ Len(loc[p].ids) <= Cardinality(WithMetadata(cat))
         /\ \A i \in 1..Len(loc[p].ids) :
              \E n \in WithMetadata(cat) :
                loc[p].ids[i] = Unmarshal(cat.ch[n].mem[DescriptionFile].data).id

\* list has returned from a root that holds a stray empty directory and a
\* bundle
C7_Witness ==
  \E p \in Procs :
    /\ Returned(p, "list")
    /\ loc[p].ok
    /\ cat.ch["a"] = DirNode(EmptyMem)
    /\ Len(loc[p].descs) = 1

\* the directories of the root fs whose metadata member exists and parses
Candidates(fs) ==
  { n \in WithMetadata(fs) : UnmarshalOk(fs.ch[n].mem[DescriptionFile].data) }

\* C8: list succeeds on an existing root and returns exactly one summary for
\* every directory whose metadata exists and parses, and nothing else
C8_ListExactly ==
  \A p \in Procs :
    Returned(p, "list") =>
      /\ cat.exists => loc[p].ok
      /\ loc[p].ok =>
           \E f \in [1..Len(loc[p].descs) -> Candidates(cat)] :
             /\ \A i, j \in 1..Len(loc[p].descs) : f[i] = f[j] => i = j
             /\ \A n \in Candidates(cat) : \E i \in 1..Len(loc[p].descs) : f[i] = n
             /\ \A i \in 1..Len(loc[p].descs) :
                  loc[p].descs[i] =
                    Unmarshal(cat.ch[f[i]].mem[DescriptionFile].data)

\* list has returned one summary from a root with a non-directory child and
\* a directory with unparsable metadata that sorts before a bundle
C8_Witness ==
  \E p \in Procs :
    /\ Returned(p, "list")
    /\ loc[p].ok
    /\ cat.ch["sub"].kind = "file"
    /\ cat.ch["a"].mem[DescriptionFile].data = Junk
    /\ loc[p].descs = << Unmarshal(Out("desc", OldB, "full")) >>

\* C9: create(D) with an id outside [a-z0-9_-]+ is rejected with a
\* validation error and changes nothing on storage
C9_InvalidIdRejected ==
  \A p \in Procs :
    Returned(p, "create") /\ ~ ValidId(loc[p].d.id) =>
      /\ ~ loc[p].ok
      /\ loc[p].err = "validation"
      /\ gen = loc[p].pre

\* C10: a call other than delete leaves every fully generated bundle as it
\* was; in particular a successful create with the id of an existing bundle
C10_BundleImmutable ==
  \A p \in Procs :
    ( /\ pc[p] = "done"
      /\ loc[p].op \in {"list", "listIds", "get", "render", "create"}
      /\ loc[p].op = "create" => ValidId(loc[p].d.id) /\ loc[p].ok )
    => \A n \in {"a", "b"} :
         Complete(loc[p].pre, n) => gen.ch[n] = loc[p].pre.ch[n]


C13_MissingRendersEmpty ==
  \A p \in Procs :
    ( /\ Returned(p, "render")
      /\ Complete(loc[p].pre, loc[p].id)
      /\ gen = loc[p].pre
      /\ ParamsOk(loc[p].par) )
    => /\ loc[p].ok
       /\ loc[p].udata # NoUserData
       /\ \A n \in DOMAIN loc[p].udata.b64.binds :
            n \notin DOMAIN Params(loc[p].par) =>
              loc[p].udata.b64.binds[n] = ""

\* a render with the parameters {} of a bundle whose payload declares the
\* placeholder Host has returned
C13_Witness ==
  \E p \in Procs :
    /\ Returned(p, "render")
    /\ loc[p].par = "{}"
    /\ Complete(loc[p].pre, loc[p].id)
    /\ "Host" \in Member(loc[p].pre, loc[p].id, PayloadFile).data.d.params
    /\ loc[p].ok
    /\ loc[p].udata.b64.binds["Host"] = ""


\* C14: a successful render returns the base64 encoding of the payload
\* template in which every placeholder bound by the parameters is replaced
\* by the bound value, verbatim
C14_RenderedVerbatim ==
  \A p \in Procs :
    ( /\ Returned(p, "render")
      /\ loc[p].ok
      /\ gen = loc[p].pre )
    => LET text == Base64Decode(loc[p].udata)
       IN /\ text.src = Member(gen, loc[p].id, PayloadFile).data
          /\ \A n \in DOMAIN text.binds :
               n \in DOMAIN Params(loc[p].par) =>
                 text.binds[n] = Params(loc[p].par)[n]


\* the operations of the catalog and of the executor that only read
ReadOps == {"list", "listIds", "get", "render"}

\* C15: list, listIds, get and render are read-only: no step of one of them,
\* whether it succeeds or fails and whatever runs next to it, changes a
\* storage unit, and each returns what it returns when it runs alone on the
\* storage state it read
C15_ReadsAreReadOnly ==
  [][ \A p \in Procs :
        (loc'[p].op \in ReadOps /\ (pc'[p] # pc[p] \/ loc'[p] # loc[p]))
        => /\ gen' = gen /\ cat' = cat
           /\ (pc'[p] = "done" \/ (pc[p] = "r_exec" /\ pc'[p] = "r_client")) =>
                LET l == loc'[p]
                IN /\ l.op = "list" =>
                        l.ok = Templates(cat).ok /\ l.descs = Templates(cat).val
                   /\ l.op = "listIds" =>
                        l.ok = TemplateIDs(cat).ok /\ l.ids = TemplateIDs(cat).val
                   /\ l.op = "get" =>
                        /\ l.ok = Template(cat, l.id).ok
                        /\ l.desc = Template(cat, l.id).val
                   /\ ( /\ l.op = "render" /\ gen = l.pre
                        /\ pc[p] \notin {"r_client", "r_post"} ) =>
                        /\ l.ok = RenderAlone(gen, l.id, l.par).ok
                        /\ l.err = RenderAlone(gen, l.id, l.par).err
                        /\ l.udata = RenderAlone(gen, l.id, l.par).val ]_vars

\* a get and a successful render have returned that overlapped: each started
\* before the other one had returned
C15_Witness ==
  \E p, q \in Procs :
    /\ p # q
    /\ Returned(p, "get") /\ loc[p].ok
    /\ Returned(q, "render") /\ loc[q].ok
    /\ loc[p].prev = NoCall /\ loc[q].prev = NoCall
    /\ gen = loc[q].pre


\* C16: create and delete take no lock on the storage unit: whatever the
\* other caller is doing to the same unit, a call that has started can take
\* its next step, so that writes and removals interleave and a create can
\* return success while its unit is missing
C16_NoLock ==
  \A p \in Procs :
    loc[p].op \in {"create", "delete"} /\ pc[p] \notin {"idle", "done"} =>
      ENABLED Step(p)

\* a create has returned success and a delete of the same id that ran next
\* to it has returned success, and the unit does not exist
C16_Witness ==
  \E p, q \in Procs :
    /\ p # q
    /\ Returned(p, "create") /\ loc[p].ok
    /\ Returned(q, "delete") /\ loc[q].ok /\ loc[q].id = loc[p].id
    /\ loc[p].prev = NoCall /\ loc[q].prev = NoCall
    /\ ~ PathExists(gen, loc[p].id)


\* C17: delete is the inverse of generation: when an id has no storage unit,
\* a successful create(D) followed by delete(D.id) leaves the bundles root,
\* every other bundle and the meta-template set as they were before the
\* create
C17_DeleteInvertsCreate ==
  \A p \in Procs :
    ( /\ Returned(p, "delete")
      /\ loc[p].prev.op = "create" /\ loc[p].prev.id = loc[p].id
      /\ loc[p].prev.ok
      /\ ~ PathExists(loc[p].prev.before, loc[p].id) )
    => /\ loc[p].ok
       /\ gen = loc[p].prev.before

\* C18: retrieve_templates returns only the ids when only_ids is true and
\* the full descriptions when it is false or omitted
C18_OnlyIdsSelects ==
  \A p \in Procs :
    Returned(p, "retrieve") /\ loc[p].ok =>
      loc[p].text = IF loc[p].onlyIDs
                    THEN MarshalIDs(TemplateIDs(cat).val)
                    ELSE MarshalDescriptions(Templates(cat).val)


\* the names of the non-directory entries of an enumeration, in its order
FileNames(files) ==
  LET fs == SelectSeq(files, LAMBDA e : ~ e.isDir)
  IN [k \in 1..Len(fs) |-> fs[k].name]

\* C19: a successful create renders every non-directory entry of the
\* meta-template set exactly once, in the order of the enumeration and each
\* with the descriptor D, and writes one output member per entry, named by
\* the entry without its suffix ".templ"; sub-directories produce no output
\* and the unit gains no other member
C19_OneOutputPerEntry ==
  \A p \in Procs :
    Returned(p, "create") /\ loc[p].ok =>
      LET srcs == FileNames(loc[p].files)
          log == loc[p].log
          outs == { log[k].out : k \in { j \in 1..Len(log) : log[j].step = "execute" } }
          stripped(n) == IF n = "description.json.templ" THEN "description.json"
                         ELSE IF n = "template.yaml.templ" THEN "template.yaml"
                         ELSE n
      IN /\ Len(log) = 3 * Len(srcs)
         /\ \A k \in 1..Len(srcs) :
              /\ log[3 * k - 2] =
                   LogEntry(srcs[k], "parse", "-", loc[p].d, TRUE)
              /\ log[3 * k - 1] =
                   LogEntry(srcs[k], "create", stripped(srcs[k]), loc[p].d, TRUE)
              /\ log[3 * k] =
                   LogEntry(srcs[k], "execute", stripped(srcs[k]), loc[p].d, TRUE)
         /\ \A m \in Names :
              IF m \in outs
              THEN /\ Member(gen, loc[p].id, m).kind = "file"
                   /\ Member(gen, loc[p].id, m).data.flag = "full"
                   /\ Member(gen, loc[p].id, m).data.d = loc[p].d
              ELSE Member(gen, loc[p].id, m) = Member(loc[p].pre, loc[p].id, m)

\* a create has returned success after an enumeration of two meta-templates
\* and one sub-directory, in a unit that had no member
C19_Witness ==
  \E p \in Procs :
    /\ Returned(p, "create") /\ loc[p].ok
    /\ Len(loc[p].files) = 3
    /\ \E k \in 1..3 : loc[p].files[k].isDir
    /\ Len(loc[p].log) = 6
    /\ ~ PathExists(loc[p].pre, loc[p].id)
    /\ Complete(gen, loc[p].id)


\* C20: create is fail-fast and does not retry: the first step of
\* executeTemplateFile that fails is the last step the call takes on a
\* meta-template, that step is taken once, and the call returns its error
C20_FailFast ==
  \A p \in Procs :
    loc[p].op = "create" =>
      LET log == loc[p].log
      IN \A k \in 1..Len(log) :
           ~ log[k].ok =>
             /\ k = Len(log)
             /\ \A j \in 1..(k - 1) :
                  ~ (log[j].src = log[k].src /\ log[j].step = log[k].step)
             /\ pc[p] \in {"c_cleanup", "done"}
             /\ ~ loc[p].ok
             /\ loc[p].err = log[k].step

\* a create has returned the parse error of the first meta-template while a
\* later meta-template of the enumeration was left untouched
C20_Witness ==
  \E p \in Procs :
    /\ Returned(p, "create") /\ ~ loc[p].ok
    /\ loc[p].err = "parse"
    /\ Len(loc[p].log) = 1
    /\ Len(FileNames(loc[p].files)) = 2
    /\ loc[p].log[1].src = FileNames(loc[p].files)[1]


\* C21 as stated: get(id) fails with not-found whenever the metadata member
\* of the unit id is absent, fails when the member does not parse and
\* otherwise returns the summary parsed from it
C21_GetReadsMetadata ==
  \A p \in Procs :
    Returned(p, "get") =>
      LET m == Member(cat, loc[p].id, DescriptionFile)
      IN /\ m.kind = "none" => ~ loc[p].ok /\ loc[p].err = "notfound"
         /\ m.kind = "file" /\ ~ UnmarshalOk(m.data) => ~ loc[p].ok
         /\ m.kind = "file" /\ UnmarshalOk(m.data) =>
              loc[p].ok /\ loc[p].desc = Unmarshal(m.data)

\* C21 amended: get(id) fails with not-found when the unit id does not exist
\* or is a directory without the metadata member; when the name id is taken
\* by a regular file, or the member is a directory, it fails with the error
\* of the read; it fails when the member does not parse and otherwise returns
\* the summary parsed from it, whatever the other units hold
C21_GetReadsMetadataAmended ==
  \A p \in Procs :
    Returned(p, "get") =>
      LET m == Member(cat, loc[p].id, DescriptionFile)
          isFile == PathExists(cat, loc[p].id) /\ ~ IsDir(cat, loc[p].id)
      IN /\ m.kind = "none" /\ ~ isFile =>
              ~ loc[p].ok /\ loc[p].err = "notfound"
         /\ isFile \/ m.kind = "dir" => ~ loc[p].ok /\ loc[p].err = "read"
         /\ m.kind = "file" /\ ~ UnmarshalOk(m.data) =>
              ~ loc[p].ok /\ loc[p].err = "json"
         /\ m.kind = "file" /\ UnmarshalOk(m.data) =>
              loc[p].ok /\ loc[p].desc = Unmarshal(m.data)

\* a get has returned the summary of a unit whose metadata names another id,
\* next to a unit whose metadata member is a directory
C21_Witness ==
  \E p \in Procs :
    /\ Returned(p, "get") /\ loc[p].ok
    /\ loc[p].id = "a"
    /\ loc[p].desc.id = "b"
    /\ Member(cat, "b", DescriptionFile).kind = "dir"


\* C22 as stated: a render whose parameter payload is not a JSON object
\* fails before a template is parsed or executed, and produces no payload
C22_BadPayloadRejected ==
  \A p \in Procs :
    loc[p].op = "render" /\ loc[p].par \notin JsonObjects =>
      /\ pc[p] # "r_exec"
      /\ pc[p] = "done" =>
           /\ ~ loc[p].ok
           /\ loc[p].err \in {"notfound", "json"}
           /\ loc[p].udata = NoUserData

\* C22 amended: a render whose parameter payload is neither a JSON object
\* nor the JSON value null fails before a template is parsed or executed,
\* and produces no payload; the payload null is accepted and a complete
\* bundle is rendered with it as with the empty object
C22_BadPayloadRejectedAmended ==
  \A p \in Procs :
    loc[p].op = "render" =>
      /\ loc[p].par \notin JsonObjects \cup {"null"} =>
           /\ pc[p] # "r_exec"
           /\ pc[p] = "done" =>
                /\ ~ loc[p].ok
                /\ loc[p].err \in {"notfound", "json"}
                /\ loc[p].udata = NoUserData
      /\ ( /\ loc[p].par = "null" /\ pc[p] = "done"
           /\ Complete(loc[p].pre, loc[p].id) /\ gen = loc[p].pre ) =>
           /\ loc[p].ok
           /\ \A n \in DOMAIN loc[p].udata.b64.binds :
                loc[p].udata.b64.binds[n] = ""

\* a render of a complete bundle with a payload that is a JSON array has
\* returned the error of json.Unmarshal
C22_Witness ==
  \E p \in Procs :
    /\ Returned(p, "render")
    /\ loc[p].par = "[1]"
    /\ Complete(loc[p].pre, loc[p].id)
    /\ ~ loc[p].ok /\ loc[p].err = "json"


\* C23: deploy_machine hands the client exactly the base64 string that
\* render returned as user_data, and reaches the client only after the bundle
\* was resolved and rendered: when resolving, parsing the parameters or
\* rendering fails, no request is sent and the call returns an error
C23_DeployAfterRender ==
  \A p \in Procs :
    loc[p].op = "render" =>
      /\ pc[p] \in {"r_client", "r_init", "r_post"} =>
           loc[p].ok /\ loc[p].udata # NoUserData
      /\ loc[p].posted # "-" =>
           /\ loc[p].ok
           /\ loc[p].udata # NoUserData
           /\ loc[p].sent = loc[p].udata
      /\ pc[p] = "done" /\ ~ loc[p].ok =>
           /\ loc[p].posted = "-"
           /\ loc[p].sent = NoUserData
           /\ loc[p].err \in {"notfound", "json", "parse", "execute"}

\* a deploy has posted the rendered string, and the deploy of the other
\* caller has returned an error without a request
C23_Witness ==
  \E p, q \in Procs :
    /\ Returned(p, "render") /\ loc[p].posted = "ok"
    /\ loc[p].sent = loc[p].udata /\ loc[p].udata # NoUserData
    /\ Returned(q, "render") /\ ~ loc[q].ok /\ loc[q].posted = "-"


\* a machine whose tag_names contain the tag "protected"
Protected(m) == m.hasTags /\ \E i \in 1..Len(m.tags) : m.tags[i] = "protected"

\* C24: the read tools never disclose a machine tagged "protected":
\* list_machines returns the machines of the response without those whose
\* tag_names contain "protected", in the order of the response, and
\* list_machine returns an empty result for such a machine
C24_ProtectedHidden ==
  \A p \in Procs :
    /\ Returned(p, "list_machines") /\ loc[p].ok =>
         loc[p].mres.machines =
           SelectSeq(loc[p].resp, LAMBDA m : ~ Protected(m))
    /\ Returned(p, "list_machine") /\ loc[p].ok =>
         IF Protected(loc[p].resp[1])
         THEN loc[p].mres.type = "empty" /\ loc[p].mres.machines = << >>
         ELSE loc[p].mres.machines = loc[p].resp

\* list_machines has returned one machine of a response of two, the other
\* one carrying the tag "protected" after another tag
C24_Witness ==
  \E p \in Procs :
    /\ Returned(p, "list_machines") /\ loc[p].ok
    /\ Len(loc[p].resp) = 2
    /\ loc[p].resp[1].tags = << "web", "protected" >>
    /\ ~ Protected(loc[p].resp[2])
    /\ Len(loc[p].mres.machines) = 1


\* C25: for every id the tool layer accepts, the name of the meta-template
\* directory included, a create or a delete of the id, successful or failed,
\* leaves the meta-template set and every unit with another id unchanged
C25_MutatorsFrame ==
  \A p \in Procs :
    ( /\ Returned(p, "create") \/ Returned(p, "delete")
      /\ ValidId(loc[p].id) )
    => /\ gen.ch[MetaDir] = loc[p].pre.ch[MetaDir]
       /\ \A n \in Names \ {loc[p].id} : gen.ch[n] = loc[p].pre.ch[n]


\* C26: a create that fails does not destroy a bundle that existed before the
\* call: when a complete bundle with the id was present at the start and the
\* create returns an error, its metadata and payload members are present
\* and unchanged afterwards
C26_FailedCreateKeepsBundle ==
  \A p \in Procs :
    ( /\ Returned(p, "create") /\ ~ loc[p].ok
      /\ Complete(loc[p].pre, loc[p].id) )
    => /\ Member(gen, loc[p].id, DescriptionFile) =
            Member(loc[p].pre, loc[p].id, DescriptionFile)
       /\ Member(gen, loc[p].id, PayloadFile) =
            Member(loc[p].pre, loc[p].id, PayloadFile)


\* C27: on an unchanged storage listIds returns the id fields of the
\* summaries of list, in their order; every returned id is the name of the
\* unit it was read from and differs from the other ones, and get succeeds
\* for it
C27_IdsAreUnitNames ==
  \A p \in Procs :
    Returned(p, "listIds") /\ loc[p].ok =>
      LET ids == loc[p].ids
          descs == Templates(cat).val
      IN /\ Len(ids) = Len(descs)
         /\ \A i \in 1..Len(ids) :
              /\ ids[i] = descs[i].id
              /\ ids[i] \in Candidates(cat)
              /\ Unmarshal(cat.ch[ids[i]].mem[DescriptionFile].data).id = ids[i]
              /\ Template(cat, ids[i]).ok
         /\ \A i, j \in 1..Len(ids) : ids[i] = ids[j] => i = j


\* C28: delete returns success only if the unit no longer exists on return;
\* when the removal fails, delete returns an error
C28_DeleteReportsRemoval ==
  \A p \in Procs :
    Returned(p, "delete") =>
      /\ loc[p].ok => ~ PathExists(gen, loc[p].id)
      /\ (\E i \in 1..Len(loc[p].log) :
             loc[p].log[i].step = "removeall" /\ ~ loc[p].log[i].ok)
           => ~ loc[p].ok


\* C29: the catalog and the executor agree on which units are bundles: an
\* id is returned by listIds (and get succeeds for it) exactly when
\* preparing a render of it with a valid payload succeeds
C29_CatalogAgreesWithExecutor ==
  \A p \in Procs :
    Returned(p, "listIds") /\ loc[p].ok =>
      \A id \in RenderIds :
        ( /\ \E i \in 1..Len(loc[p].ids) : loc[p].ids[i] = id
          /\ Template(cat, id).ok )
        <=> RetrieveExecutor(gen, id, "{}").ok


\* C30: GetClient constructs the client at most once under any number of
\* concurrent callers; every call returns the pair of client and error that
\* the one construction produced, and that pair never changes afterwards,
\* so a failed initialisation stays failed
C30_ClientBuiltOnce ==
  [][ /\ once'.built <= 1
      /\ once.state = "done" => once' = once
      /\ \A p \in Procs :
           loc'[p].got # NoPair =>
             /\ once'.state = "done" /\ once'.built = 1
             /\ loc'[p].got = NewMAASClientFromEnv(once'.env)
             /\ loc'[p].got = [client |-> once'.client, err |-> once'.err]
    ]_vars

\* two calls in progress at once have both been handed the pair
C30_Witness ==
  /\ once.built = 1
  /\ \A p \in Procs : pc[p] = "r_post" /\ loc[p].got # NoPair

============================================================================
